---- MODULE Spec2Model ----
(***************************************************************************)
(* Model of the web-serial terminal (App component, Sender component and   *)
(* the converters).  One action is one run-to-completion segment of a      *)
(* handler: JavaScript runs a handler until its next await, so every       *)
(* await splits a handler into the steps modelled here.  A handler keeps   *)
(* the values of the render in which it was created (port, isPaused,       *)
(* addLog): the records of the in-flight handlers hold those captured      *)
(* values, the plain variables hold the live React state and refs.         *)
(***************************************************************************)
EXTENDS Integers, Sequences, FiniteSets, TLC

\* ------------------------------------------------------------------ bounds
\* Port objects the user can open one after the other.
MaxConnects == 2
\* User gestures in one behaviour: clicks on connect, disconnect, pause,
\* clear and send, changes of the framing checkbox, file selections.
MaxInputs == 4
\* Inbound chunks the transport delivers in one behaviour.
MaxChunks == 2
\* Largest file, in bytes.
MaxFileLen == 3
\* Largest "bytes per batch" value entered in the Sender.
MaxThrottle == 2
\* Transport faults (read error, stream end, write error, unreadable file).
MaxFaults == 1
\* Capacity of the log store; stands for the 3000 of part_003 line 145.
LogCap == 3
\* The interval of the timed send, in clock steps.
TimerTicks == 2

Ports == 1..MaxConnects

VARIABLES
  port,            \* App state `port`: 0 is null, else the open port object
  isConnected,     \* App state
  isPaused,        \* App state
  isAutoLineBreak, \* App state (framing)
  logs,            \* App state: the log store
  lineFrequency,   \* App state: published lines per second
  readerRef,       \* ref: 0 is null, else the port whose reader it holds
  keepReadingRef,  \* ref
  isPausedRef,     \* ref, copied from isPaused by an effect
  decoderRef,      \* ref: the decoder's buffered lead byte, 0 when none
  newlineCountRef, \* ref: newline accumulator
  readable,        \* transport: the readable of p, "null" or "open"
  writable,        \* transport: writable[p] is non-null
  rlock,           \* transport: the readable of p is locked to a reader
  wlock,           \* transport: the writable of p is locked to a writer
  cn,              \* cn[p]: the connect() call that opens port p
  dc,              \* the disconnect() call in flight
  loop,            \* loop[p]: the readLoop(p) call
  sd,              \* sd[p]: the sendData call awaiting its write on p
  fs,              \* the handleFileSend call in flight
  cnt,             \* how often each bounded input has happened
  ev,              \* the last handler segment that ran, and its outcome
  hist,            \* history: what happened since the running file send began
  sender,          \* Sender state: input, mode, isTimerEnabled, isSendingFile
  fileProgress,    \* Sender state: the progress shown for the file send
  timer,           \* the interval of the Sender's timer effect
  rx               \* history: what the transport delivered and the decoder was fed

vars == <<port, isConnected, isPaused, isAutoLineBreak, logs, lineFrequency,
          readerRef, keepReadingRef, isPausedRef, decoderRef, newlineCountRef,
          readable, writable, rlock, wlock, cn, dc, loop, sd, fs, cnt, ev, hist,
          sender, fileProgress, timer, rx>>

appVars == <<port, isConnected, isPaused, isAutoLineBreak, lineFrequency>>
refVars == <<readerRef, keepReadingRef, isPausedRef, decoderRef>>
ioVars == <<readable, writable, rlock, wlock>>
procVars == <<cn, dc, loop, sd, fs>>
senderVars == <<sender, fileProgress>>

\* ------------------------------------------------------------- converters
\* The characters of the modelled inputs and their UTF-16 code units.
CharCode(c) == CASE c = "F" -> 70 [] c = "1" -> 49 [] c = " " -> 32 [] c = "G" -> 71

HexDigits == {"F", "1"}
HexValue(c) == CASE c = "F" -> 15 [] c = "1" -> 1

RECURSIVE cleanHex(_)
cleanHex(s) ==
  IF s = <<>> THEN <<>>
  ELSE IF Head(s) \in HexDigits THEN <<Head(s)>> \o cleanHex(Tail(s))
       ELSE cleanHex(Tail(s))

RECURSIVE parsePairs(_)
parsePairs(h) ==
  IF Len(h) < 2 THEN <<>>
  ELSE <<16 * HexValue(h[1]) + HexValue(h[2])>> \o parsePairs(SubSeq(h, 3, Len(h)))

\* hexToUint8Array without the length check: a last single digit is dropped.
hexToUint8Array_noLengthCheck(hex) ==
  [ok |-> TRUE, bytes |-> parsePairs(cleanHex(hex))]

\* hexToUint8Array: [ok |-> FALSE] stands for the thrown Error.
hexToUint8Array(hex) ==
  LET h == cleanHex(hex)
  IN  IF Len(h) % 2 # 0 THEN [ok |-> FALSE, bytes |-> <<>>]
      ELSE [ok |-> TRUE, bytes |-> parsePairs(h)]

\* The character codes of a string.
charCodes(str) == [i \in 1..Len(str) |-> CharCode(str[i])]

\* stringToUint8Array: TextEncoder on the modelled (ASCII) characters.
stringToUint8Array(str) == [ok |-> TRUE, bytes |-> charCodes(str)]

\* ----------------------------------------------------------------- decoder
\* TextDecoder("utf-8", {fatal: false}).decode(chunk, {stream: true}) on the
\* modelled bytes: ASCII, the lead bytes of two-byte sequences (0xC2..0xDF)
\* and continuation bytes (0x80..0xBF).  pend is the buffered lead byte.
Replacement == 65533
IsLead2(b) == b >= 194 /\ b <= 223
IsCont(b) == b >= 128 /\ b <= 191

RECURSIVE decode(_, _)
decode(pend, bytes) ==
  IF bytes = <<>> THEN [text |-> <<>>, pend |-> pend]
  ELSE
    LET b == Head(bytes)
        rest == Tail(bytes)
    IN  IF pend # 0
        THEN IF IsCont(b)
             THEN LET r == decode(0, rest)
                  IN  [text |-> <<(pend % 32) * 64 + (b % 64)>> \o r.text, pend |-> r.pend]
             ELSE LET r == decode(0, bytes)
                  IN  [text |-> <<Replacement>> \o r.text, pend |-> r.pend]
        ELSE IF b < 128
             THEN LET r == decode(0, rest)
                  IN  [text |-> <<b>> \o r.text, pend |-> r.pend]
             ELSE IF IsLead2(b) THEN decode(b, rest)
             ELSE LET r == decode(0, rest)
                  IN  [text |-> <<Replacement>> \o r.text, pend |-> r.pend]

\* The length of data.slice(sent, sent + throttleBytes) on total bytes
\* (a negative end counts from the end of the array).
sliceLen(sent, throttleBytes, total) ==
  LET to == sent + throttleBytes
      end == IF to < 0 THEN (IF total + to < 0 THEN 0 ELSE total + to)
             ELSE (IF to > total THEN total ELSE to)
  IN  IF end > sent THEN end - sent ELSE 0

\* progressOf that truncates instead of rounding.
progressOf_truncated(sent, total) == (100 * sent) \div total

\* Math.round((sent / total) * 100)
progressOf(sent, total) == (200 * sent + total) \div (2 * total)

\* ---------------------------------------------------------------- log store
\* A log entry.  The text of a Receive or Transmit entry is a sequence of
\* character codes, held in text; the text of an info or error entry is one
\* of the fixed messages, held by name in msg.
Entry(type, data, text) ==
  IF type \in {"rx", "tx"}
  THEN [type |-> type, data |-> data, text |-> text, msg |-> ""]
  ELSE [type |-> type, data |-> data, text |-> <<>>, msg |-> text]

RECURSIVE countNewlines(_)
countNewlines(text) ==
  IF text = <<>> THEN 0
  ELSE (IF Head(text) = 10 THEN 1 ELSE 0) + countNewlines(Tail(text))

\* addLogEntries without the eviction of the oldest entries.
addLogEntries_noEviction(framing, prev, type, data, newText) ==
  IF ~framing /\ type = "rx" /\ Len(prev) > 0 /\ prev[Len(prev)].type = "rx"
  THEN LET lastLog == prev[Len(prev)]
       IN  [prev EXCEPT ![Len(prev)] =
              [lastLog EXCEPT !.data = lastLog.data \o data,
                              !.text = lastLog.text \o newText]]
  ELSE Append(prev, Entry(type, data, newText))

\* addLogEntries with a merge that puts the new bytes before those of the
\* last entry.
addLogEntries_reordered(framing, prev, type, data, newText) ==
  IF ~framing /\ type = "rx" /\ Len(prev) > 0 /\ prev[Len(prev)].type = "rx"
  THEN LET lastLog == prev[Len(prev)]
       IN  [prev EXCEPT ![Len(prev)] =
              [lastLog EXCEPT !.data = data \o lastLog.data,
                              !.text = lastLog.text \o newText]]
  ELSE LET nextLogs == Append(prev, Entry(type, data, newText))
       IN  IF Len(nextLogs) > LogCap
           THEN SubSeq(nextLogs, Len(nextLogs) - LogCap + 1, Len(nextLogs))
           ELSE nextLogs

\* addLogEntries with a merge that overwrites the bytes of the last entry
\* instead of appending to them.
addLogEntries_overwrite(framing, prev, type, data, newText) ==
  IF ~framing /\ type = "rx" /\ Len(prev) > 0 /\ prev[Len(prev)].type = "rx"
  THEN LET lastLog == prev[Len(prev)]
       IN  [prev EXCEPT ![Len(prev)] =
              [lastLog EXCEPT !.data = data, !.text = lastLog.text \o newText]]
  ELSE LET nextLogs == Append(prev, Entry(type, data, newText))
       IN  IF Len(nextLogs) > LogCap
           THEN SubSeq(nextLogs, Len(nextLogs) - LogCap + 1, Len(nextLogs))
           ELSE nextLogs

\* The updater addLog hands to setLogs.  framing is the isAutoLineBreak of
\* the render that created this addLog (useCallback, deps [isAutoLineBreak]).
addLogEntries(framing, prev, type, data, newText) ==
  IF ~framing /\ type = "rx" /\ Len(prev) > 0 /\ prev[Len(prev)].type = "rx"
  THEN LET lastLog == prev[Len(prev)]
       IN  [prev EXCEPT ![Len(prev)] =
              [lastLog EXCEPT !.data = lastLog.data \o data,
                              !.text = lastLog.text \o newText]]
  ELSE LET nextLogs == Append(prev, Entry(type, data, newText))
       IN  IF Len(nextLogs) > LogCap
           THEN SubSeq(nextLogs, Len(nextLogs) - LogCap + 1, Len(nextLogs))
           ELSE nextLogs

\* What addLog adds to newlineCountRef.
addLogNewlines(type, newText) == IF type = "rx" THEN countNewlines(newText) ELSE 0

\* An info or error entry: no bytes, the message as its text.
Note(prev, type, msg) == addLogEntries(FALSE, prev, type, <<>>, msg)

\* ------------------------------------------------------------------- inputs
\* What the user types into the Sender: the text and the send mode.
Inputs ==
  { [input |-> <<"F", "F">>, mode |-> "hex"],
    [input |-> <<"F", "F", " ", "1">>, mode |-> "hex"],
    [input |-> <<"F", "F", "G">>, mode |-> "hex"],
    [input |-> <<"G", "1">>, mode |-> "text"] }

\* What one reader.read() can deliver: a newline, and the two halves of a
\* two-byte character split across chunks.
Chunks == { <<10>>, <<195>>, <<169>> }

\* at: the port the segment ran on, 0 when it is not tied to one.
\* arg: for a call of sendData its arguments, the mode followed by the
\* characters of the input; for a read the chunk it delivered.
EventOf(op, res, at, arg) == [op |-> op, res |-> res, at |-> at, arg |-> arg]
EventAt(op, res, at) == EventOf(op, res, at, <<>>)
Event(op, res) == EventAt(op, res, 0)
Bump(c) == [cnt EXCEPT ![c] = @ + 1]

\* paused: pause was engaged after the session started a chunk write and
\* before its last one; disconnected: disconnect was clicked while the
\* session ran; pauseClicked: the pause button was clicked while it ran.
NoHistory == [paused |-> FALSE, disconnected |-> FALSE, pauseClicked |-> FALSE]

IdleConnect == [pc |-> "idle", framing |-> FALSE]
IdleDisconnect == [pc |-> "idle", port |-> 0, reader |-> 0]
NoLoop == [pc |-> "none", framing |-> FALSE]
IdleSend == [pc |-> "idle", data |-> <<>>, input |-> <<>>]
TimerOff == [armed |-> FALSE, elapsed |-> 0, waited |-> 0]
IdleFile == [pc |-> "idle", port |-> 0, isPaused |-> FALSE, total |-> 0, sent |-> 0,
             throttleBytes |-> 0, delay |-> FALSE, started |-> 0,
             data |-> <<>>, writes |-> <<>>]

\* owner: the port whose readLoop made the decoder now in decoderRef, 0 for
\* the decoder the App was created with.  delivered: the bytes of all chunks
\* reader.read() delivered, in order.  fed[p], text[p]: the bytes readLoop(p)
\* gave to the decoder and the text it got back, in order.  lossy: a chunk
\* was dropped under pause, or a Receive entry left the store (cleared or
\* evicted).
NoReceived == [owner |-> 0, delivered |-> <<>>, lossy |-> FALSE,
               fed |-> [p \in Ports |-> <<>>], text |-> [p \in Ports |-> <<>>]]

Init ==
  /\ port = 0
  /\ isConnected = FALSE
  /\ isPaused = FALSE
  /\ isAutoLineBreak = FALSE
  /\ logs = <<>>
  /\ lineFrequency = 0
  /\ readerRef = 0
  /\ keepReadingRef = TRUE
  /\ isPausedRef = FALSE
  /\ decoderRef = 0
  /\ newlineCountRef = 0
  /\ readable = [p \in Ports |-> "null"]
  /\ writable = [p \in Ports |-> FALSE]
  /\ rlock = [p \in Ports |-> FALSE]
  /\ wlock = [p \in Ports |-> FALSE]
  /\ cn = [p \in Ports |-> IdleConnect]
  /\ dc = IdleDisconnect
  /\ loop = [p \in Ports |-> NoLoop]
  /\ sd = [p \in Ports |-> IdleSend]
  /\ fs = IdleFile
  /\ cnt = [conn |-> 0, inputs |-> 0, chunks |-> 0, faults |-> 0]
  /\ ev = Event("init", "")
  /\ hist = NoHistory
  /\ sender = [input |-> <<>>, mode |-> "text", isTimerEnabled |-> FALSE,
               isSendingFile |-> FALSE]
  /\ fileProgress = 0
  /\ timer = TimerOff
  /\ rx = NoReceived

\* ------------------------------------------------------------ timer effect
\* input.trim(): the input without its leading and trailing white space.
RECURSIVE trimStart(_)
trimStart(s) == IF s # <<>> /\ Head(s) = " " THEN trimStart(Tail(s)) ELSE s
RECURSIVE trimEnd(_)
trimEnd(s) == IF s # <<>> /\ s[Len(s)] = " " THEN trimEnd(SubSeq(s, 1, Len(s) - 1)) ELSE s
trim(s) == trimEnd(trimStart(s))

\* TimerCondition with the connection alone, whatever the pause state.
TimerCondition_ignoresPause ==
  sender.isTimerEnabled /\ isConnected /\ trim(sender.input) # <<>>

\* The condition under which the Sender's effect sets its interval; the
\* Sender's isConnected is the App's isConnected && !isPaused.
TimerCondition ==
  sender.isTimerEnabled /\ (isConnected /\ ~isPaused) /\ trim(sender.input) # <<>>

\* The Sender's timer effect after a handler segment.  rendered: the
\* segment set App state, or Sender state the effect depends on.  The App
\* hands the Sender a new sendData with every render, so every render
\* clears the interval and, under TimerCondition, sets a new one.
\* waited counts the clock steps since the last timed send, or since the
\* condition came to hold, up to one step beyond the interval.
SenderEffect(rendered) ==
  timer' = IF ~rendered THEN timer
           ELSE IF TimerCondition'
                THEN [armed |-> TRUE, elapsed |-> 0,
                      waited |-> IF TimerCondition THEN timer.waited ELSE 0]
                ELSE TimerOff

\* prev is kept whole in next: every entry of prev but the last is where it
\* was, and the last is where it was, as it was or with bytes added to it.
StoreKept(prev, next) ==
  /\ Len(next) >= Len(prev)
  /\ \A i \in 1..(Len(prev) - 1) : next[i] = prev[i]
  /\ prev # <<>> =>
       \/ next[Len(prev)] = prev[Len(prev)]
       \/ /\ next[Len(prev)].type = "rx" /\ prev[Len(prev)].type = "rx"
          /\ Len(next[Len(prev)].data) > Len(prev[Len(prev)].data)

\* A Receive entry of prev is missing in next: the store was cleared, or
\* its oldest entries were evicted, one for every entry appended beyond the
\* capacity (a segment appends one entry; the one that follows
\* file.arrayBuffer() can append two).
RxEntryLeft(prev, next) ==
  IF next = <<>> THEN \E i \in 1..Len(prev) : prev[i].type = "rx"
  ELSE IF StoreKept(prev, next) THEN FALSE
  ELSE \E i \in 1..(IF fs.pc = "buffer" THEN 2 ELSE 1) :
         i <= Len(prev) /\ prev[i].type = "rx"

\* The history of the receive path after a handler segment, from the event
\* of the segment and the store before and after it.
RxHistory ==
  LET read == ev'.op = "read" /\ ev'.res \in {"rx", "discarded"}
      fed == ev'.op = "read" /\ ev'.res = "rx"
  IN  rx' = [owner |-> IF ev'.op = "connect" /\ ev'.res = "opened" THEN ev'.at
                       ELSE rx.owner,
             delivered |-> IF read THEN rx.delivered \o ev'.arg ELSE rx.delivered,
             lossy |-> rx.lossy \/ (read /\ ~fed) \/ RxEntryLeft(logs, logs'),
             fed |-> IF fed THEN [rx.fed EXCEPT ![ev'.at] = @ \o ev'.arg] ELSE rx.fed,
             text |-> IF fed
                      THEN [rx.text EXCEPT ![ev'.at] = @ \o decode(decoderRef, ev'.arg).text]
                      ELSE rx.text]

\* ConnectionState of the specification, from the App state.
ConnectionState ==
  IF ~isConnected THEN "Disconnected"
  ELSE IF isPaused THEN "ConnectedPaused" ELSE "Connected"

\* --------------------------------------------------------------- connect
\* connect, up to its awaits (requestPort, open).  The Sidebar shows the
\* connect button while isConnected is false, so also while an earlier
\* connect still awaits its open().  The call keeps the addLog and readLoop
\* of the render it was clicked in.
ConnectClick ==
  /\ ~isConnected
  /\ cnt.conn < MaxConnects
  /\ cnt.inputs < MaxInputs
  /\ cn' = [cn EXCEPT ![cnt.conn + 1] = [pc |-> "opening", framing |-> isAutoLineBreak]]
  /\ cnt' = [cnt EXCEPT !.conn = @ + 1, !.inputs = @ + 1]
  /\ ev' = EventAt("connect", "opening", cnt.conn + 1)
  /\ UNCHANGED <<appVars, logs, refVars, newlineCountRef, ioVars, dc, loop, sd, fs, hist>>
  /\ UNCHANGED senderVars
  /\ SenderEffect(FALSE)
  /\ RxHistory

\* connect after open() resolved, with the synchronous start of readLoop:
\* a new decoder, the loop condition, getReader and the first read().
ConnectOpened(p) ==
  /\ cn[p].pc = "opening"
  /\ port' = p
  /\ isConnected' = TRUE
  /\ keepReadingRef' = TRUE
  /\ logs' = Note(logs, "info", "connected")
  /\ decoderRef' = 0
  /\ readable' = [readable EXCEPT ![p] = "open"]
  /\ writable' = [writable EXCEPT ![p] = TRUE]
  /\ rlock' = [rlock EXCEPT ![p] = TRUE]
  /\ readerRef' = p
  /\ loop' = [loop EXCEPT ![p] = [pc |-> "reading", framing |-> cn[p].framing]]
  /\ cn' = [cn EXCEPT ![p] = IdleConnect]
  /\ ev' = EventAt("connect", "opened", p)
  /\ UNCHANGED <<isPaused, isAutoLineBreak, lineFrequency, isPausedRef,
                 newlineCountRef, wlock, dc, sd, fs, cnt, hist>>
  /\ UNCHANGED senderVars
  /\ SenderEffect(TRUE)
  /\ RxHistory

\* connect when requestPort or open rejected.
ConnectFailed(p) ==
  /\ cn[p].pc = "opening"
  /\ logs' = Note(logs, "error", "connectFailed")
  /\ cn' = [cn EXCEPT ![p] = IdleConnect]
  /\ ev' = EventAt("connect", "failed", p)
  /\ UNCHANGED <<appVars, refVars, newlineCountRef, ioVars, dc, loop, sd, fs, cnt, hist>>
  /\ UNCHANGED senderVars
  /\ SenderEffect(TRUE)
  /\ RxHistory

\* ------------------------------------------------------------ disconnect
\* The effect with the dependency [isPaused]: what isPausedRef.current holds
\* after the render in which isPaused has the value paused.  The effect runs
\* with the commit of that render, before another task gets to run.
SyncPausedRef_stale(paused) == isPausedRef

SyncPausedRef(paused) == paused

\* port.close() as disconnect calls it: it rejects while a stream of the
\* port is locked (the rejection is swallowed), else both streams go.
closeReadable(p) ==
  IF rlock[p] \/ wlock[p] THEN readable ELSE [readable EXCEPT ![p] = "null"]
closeWritable(p) ==
  IF rlock[p] \/ wlock[p] THEN writable ELSE [writable EXCEPT ![p] = FALSE]

\* readLoopNext with a loop condition that does not look at keepReadingRef.
readLoopNext_keepsReading(p, still, keepReading) ==
  /\ readable' = [readable EXCEPT ![p] = IF still THEN "open" ELSE "null"]
  /\ IF still
     THEN /\ rlock' = [rlock EXCEPT ![p] = TRUE]
          /\ readerRef' = p
          /\ loop' = [loop EXCEPT ![p].pc = "reading"]
     ELSE /\ rlock' = [rlock EXCEPT ![p] = FALSE]
          /\ readerRef' = readerRef
          /\ loop' = [loop EXCEPT ![p].pc = "stopped"]

\* The end of one pass of the outer while of readLoop(p): the finally
\* releases the reader, then the condition `selectedPort.readable &&
\* keepReadingRef.current` decides between a new reader and the return.
\* still: the port has a readable after this pass (a stream that ended or
\* failed is replaced while the port stays usable).  keepReading: the value
\* of keepReadingRef.current at the test.
readLoopNext(p, still, keepReading) ==
  /\ readable' = [readable EXCEPT ![p] = IF still THEN "open" ELSE "null"]
  /\ IF still /\ keepReading
     THEN /\ rlock' = [rlock EXCEPT ![p] = TRUE]
          /\ readerRef' = p
          /\ loop' = [loop EXCEPT ![p].pc = "reading"]
     ELSE /\ rlock' = [rlock EXCEPT ![p] = FALSE]
          /\ readerRef' = readerRef
          /\ loop' = [loop EXCEPT ![p].pc = "stopped"]

\* disconnect up to its first await.  reader.cancel() closes the stream and
\* settles the pending read with done at once, so the loop's reaction (its
\* finally and its loop test, which sees keepReadingRef false) runs before
\* any other task; the port offers a fresh readable afterwards.  On a reader
\* that was released cancel() rejects and disconnect ends there.
DisconnectClick ==
  /\ isConnected
  /\ dc.pc = "idle"
  /\ cnt.inputs < MaxInputs
  /\ cnt' = Bump("inputs")
  /\ keepReadingRef' = FALSE
  /\ hist' = [hist EXCEPT !.disconnected = @ \/ fs.pc # "idle"]
  /\ IF readerRef # 0
     THEN IF loop[readerRef].pc = "reading"
          THEN /\ readLoopNext(readerRef, TRUE, FALSE)
               /\ dc' = [pc |-> "cancel", port |-> port, reader |-> readerRef]
               /\ ev' = EventAt("disconnect", "cancel", readerRef)
               /\ UNCHANGED writable
          ELSE /\ dc' = IdleDisconnect
               /\ ev' = Event("disconnect", "threw")
               /\ UNCHANGED <<readerRef, readable, writable, rlock, loop>>
     ELSE /\ readable' = closeReadable(port)
          /\ writable' = closeWritable(port)
          /\ dc' = [pc |-> "close", port |-> port, reader |-> 0]
          /\ ev' = Event("disconnect", "close")
          /\ UNCHANGED <<readerRef, rlock, loop>>
  /\ UNCHANGED <<appVars, logs, isPausedRef, decoderRef, newlineCountRef,
                 wlock, cn, sd, fs>>
  /\ UNCHANGED senderVars
  /\ SenderEffect(FALSE)
  /\ RxHistory

\* disconnect after reader.cancel() resolved: clears readerRef, calls close().
DisconnectCancelled ==
  /\ dc.pc = "cancel"
  /\ readerRef' = 0
  /\ readable' = closeReadable(dc.port)
  /\ writable' = closeWritable(dc.port)
  /\ dc' = [dc EXCEPT !.pc = "close"]
  /\ ev' = Event("disconnect", "close")
  /\ UNCHANGED <<appVars, logs, keepReadingRef, isPausedRef, decoderRef, newlineCountRef,
                 rlock, wlock, cn, loop, sd, fs, cnt, hist>>
  /\ UNCHANGED senderVars
  /\ SenderEffect(FALSE)
  /\ RxHistory

\* disconnect after close() settled.
DisconnectClosed ==
  /\ dc.pc = "close"
  /\ port' = 0
  /\ isConnected' = FALSE
  /\ isPaused' = FALSE
  /\ isPausedRef' = SyncPausedRef(FALSE)
  /\ logs' = Note(logs, "info", "closed")
  /\ dc' = IdleDisconnect
  /\ ev' = EventAt("disconnect", "closed", dc.port)
  /\ UNCHANGED <<isAutoLineBreak, lineFrequency, readerRef, keepReadingRef, decoderRef,
                 newlineCountRef, ioVars, cn, loop, sd, fs, cnt, hist>>
  /\ UNCHANGED senderVars
  /\ SenderEffect(TRUE)
  /\ RxHistory

\* ------------------------------------------------------------ UI toggles
\* The file send has started a chunk write and will have bytes left to send
\* once the write in flight is done.
midTransfer ==
  \/ fs.pc = "delay"
  \/ /\ fs.pc = "write"
     /\ fs.sent + sliceLen(fs.sent, fs.throttleBytes, fs.total) < fs.total

\* togglePause, a click handler, with the render and the effect it causes;
\* its button is disabled while isConnected is false.
togglePause ==
  /\ isConnected
  /\ cnt.inputs < MaxInputs
  /\ cnt' = Bump("inputs")
  /\ isPaused' = ~isPaused
  /\ isPausedRef' = SyncPausedRef(~isPaused)
  /\ hist' = [hist EXCEPT !.paused = @ \/ (~isPaused /\ midTransfer),
                           !.pauseClicked = @ \/ fs.pc # "idle"]
  /\ logs' = Note(logs, "info", IF ~isPaused THEN "paused" ELSE "resumed")
  /\ ev' = Event("togglePause", IF ~isPaused THEN "paused" ELSE "resumed")
  /\ UNCHANGED <<port, isConnected, isAutoLineBreak, lineFrequency, readerRef,
                 keepReadingRef, decoderRef, newlineCountRef, ioVars, procVars>>
  /\ UNCHANGED senderVars
  /\ SenderEffect(TRUE)
  /\ RxHistory

\* The "force line break per packet" checkbox of the Sidebar.
setIsAutoLineBreak ==
  /\ cnt.inputs < MaxInputs
  /\ cnt' = Bump("inputs")
  /\ isAutoLineBreak' = ~isAutoLineBreak
  /\ ev' = Event("setIsAutoLineBreak", "")
  /\ UNCHANGED <<port, isConnected, isPaused, lineFrequency, logs, refVars,
                 newlineCountRef, ioVars, procVars, hist>>
  /\ UNCHANGED senderVars
  /\ SenderEffect(TRUE)
  /\ RxHistory

\* The clear button: setLogs([]).
clearLogs ==
  /\ logs # <<>>
  /\ cnt.inputs < MaxInputs
  /\ cnt' = Bump("inputs")
  /\ logs' = <<>>
  /\ ev' = Event("clearLogs", "")
  /\ UNCHANGED <<appVars, refVars, newlineCountRef, ioVars, procVars, hist>>
  /\ UNCHANGED senderVars
  /\ SenderEffect(TRUE)
  /\ RxHistory

\* --------------------------------------------------------------- readLoop
\* reader.read() resolved with a chunk.
ReadValue(p, value) ==
  /\ loop[p].pc = "reading"
  /\ readable[p] = "open"
  /\ cnt.chunks < MaxChunks
  /\ cnt' = Bump("chunks")
  /\ IF ~isPausedRef
     THEN LET textChunk == decode(decoderRef, value) IN
          /\ decoderRef' = textChunk.pend
          /\ logs' = addLogEntries(loop[p].framing, logs, "rx", value, textChunk.text)
          /\ newlineCountRef' = newlineCountRef + addLogNewlines("rx", textChunk.text)
          /\ ev' = EventOf("read", "rx", p, value)
     ELSE /\ UNCHANGED <<decoderRef, logs, newlineCountRef>>
          /\ ev' = EventOf("read", "discarded", p, value)
  /\ UNCHANGED <<appVars, readerRef, keepReadingRef, isPausedRef, ioVars, procVars, hist>>
  /\ UNCHANGED senderVars
  /\ SenderEffect(ev'.res = "rx")
  /\ RxHistory

\* reader.read() resolved with done because the stream ended by itself.
ReadDone(p) ==
  /\ loop[p].pc = "reading"
  /\ readable[p] = "open"
  /\ cnt.faults < MaxFaults
  /\ cnt' = Bump("faults")
  /\ readLoopNext(p, TRUE, keepReadingRef)
  /\ ev' = EventAt("read", "done", p)
  /\ UNCHANGED <<appVars, logs, keepReadingRef, isPausedRef, decoderRef, newlineCountRef,
                 writable, wlock, cn, dc, sd, fs, hist>>
  /\ UNCHANGED senderVars
  /\ SenderEffect(FALSE)
  /\ RxHistory

\* reader.read() rejected: the catch prints to the console, nothing else.
\* fatal: the port lost its readable (device gone).
ReadError(p, fatal) ==
  /\ loop[p].pc = "reading"
  /\ readable[p] = "open"
  /\ cnt.faults < MaxFaults
  /\ cnt' = Bump("faults")
  /\ readLoopNext(p, ~fatal, keepReadingRef)
  /\ ev' = EventAt("read", "error", p)
  /\ UNCHANGED <<appVars, logs, keepReadingRef, isPausedRef, decoderRef, newlineCountRef,
                 writable, wlock, cn, dc, sd, fs, hist>>
  /\ UNCHANGED senderVars
  /\ SenderEffect(FALSE)
  /\ RxHistory

\* --------------------------------------------------------------- sendData
\* sendGate without the pause check.
sendGate_noPause ==
  IF port = 0 \/ ~writable[port] THEN "noPort" ELSE "go"

\* The checks both send paths start with: no port or no write stream is a
\* silent return, pause is a refusal with an error entry.
sendGate ==
  IF port = 0 \/ ~writable[port] THEN "noPort"
  ELSE IF isPaused THEN "paused"
  ELSE "go"

\* sendData(input, mode) up to its await of writer.write.
sendData(input, mode) ==
  /\ IF sendGate = "noPort"
     THEN /\ ev' = EventOf("sendData", "noPort", 0, <<mode>> \o input)
          /\ UNCHANGED <<logs, wlock, sd>>
     ELSE IF sendGate = "paused"
     THEN /\ logs' = Note(logs, "error", "sendPaused")
          /\ ev' = EventOf("sendData", "paused", 0, <<mode>> \o input)
          /\ UNCHANGED <<wlock, sd>>
     ELSE LET data == IF mode = "hex" THEN hexToUint8Array(input)
                                      ELSE stringToUint8Array(input)
          IN  IF ~data.ok
              THEN /\ logs' = Note(logs, "error", "sendFailed")
                   /\ ev' = EventOf("sendData", "badHex", 0, <<mode>> \o input)
                   /\ UNCHANGED <<wlock, sd>>
              ELSE IF wlock[port]
              THEN /\ logs' = Note(logs, "error", "sendFailed")
                   /\ ev' = EventOf("sendData", "locked", 0, <<mode>> \o input)
                   /\ UNCHANGED <<wlock, sd>>
              ELSE /\ wlock' = [wlock EXCEPT ![port] = TRUE]
                   /\ sd' = [sd EXCEPT ![port] =
                               [pc |-> "writing", data |-> data.bytes, input |-> input]]
                   /\ ev' = EventOf("sendData", "writing", 0, <<mode>> \o input)
                   /\ UNCHANGED logs
  /\ UNCHANGED <<appVars, refVars, newlineCountRef, readable, writable, rlock,
                 cn, dc, loop, fs, hist, senderVars>>

\* The segments of sendData that append an entry, and so render the App.
sendDataLogged == ev'.res \in {"paused", "badHex", "locked"}

\* A click on the send button: handleSendClick with the text typed into the
\* Sender (it returns at once on an input that trims to nothing).
handleSendClick(input, mode) ==
  /\ trim(input) # <<>>
  /\ cnt.inputs < MaxInputs
  /\ cnt' = Bump("inputs")
  /\ sendData(input, mode)
  /\ SenderEffect(sendDataLogged)
  /\ RxHistory

\* sendData after writer.write resolved: releaseLock, then the tx entry.
sendDataWritten(p) ==
  /\ sd[p].pc = "writing"
  /\ wlock' = [wlock EXCEPT ![p] = FALSE]
  /\ logs' = addLogEntries(isAutoLineBreak, logs, "tx", sd[p].data, charCodes(sd[p].input))
  /\ sd' = [sd EXCEPT ![p] = IdleSend]
  /\ ev' = Event("sendData", "written")
  /\ UNCHANGED <<appVars, refVars, newlineCountRef, readable, writable, rlock,
                 cn, dc, loop, fs, cnt, hist>>
  /\ UNCHANGED senderVars
  /\ SenderEffect(TRUE)
  /\ RxHistory

\* sendData after writer.write rejected: the catch logs, nothing releases.
sendDataFailed(p) ==
  /\ sd[p].pc = "writing"
  /\ cnt.faults < MaxFaults
  /\ cnt' = Bump("faults")
  /\ logs' = Note(logs, "error", "sendFailed")
  /\ sd' = [sd EXCEPT ![p] = IdleSend]
  /\ ev' = Event("sendData", "writeFailed")
  /\ UNCHANGED <<appVars, refVars, newlineCountRef, ioVars, cn, dc, loop, fs, hist>>
  /\ UNCHANGED senderVars
  /\ SenderEffect(TRUE)
  /\ RxHistory

\* ------------------------------------------------------------ timed send
\* The user edits the Sender's text box and send mode.
setInput(input, mode) ==
  /\ sender.input # input \/ sender.mode # mode
  /\ cnt.inputs < MaxInputs
  /\ cnt' = Bump("inputs")
  /\ sender' = [sender EXCEPT !.input = input, !.mode = mode]
  /\ ev' = Event("setInput", "")
  /\ UNCHANGED <<appVars, logs, refVars, newlineCountRef, ioVars, procVars, hist,
                 fileProgress>>
  /\ SenderEffect(TRUE)
  /\ RxHistory

\* The "timed send" checkbox of the Sender.
setIsTimerEnabled ==
  /\ cnt.inputs < MaxInputs
  /\ cnt' = Bump("inputs")
  /\ sender' = [sender EXCEPT !.isTimerEnabled = ~@]
  /\ ev' = Event("setIsTimerEnabled", "")
  /\ UNCHANGED <<appVars, logs, refVars, newlineCountRef, ioVars, procVars, hist,
                 fileProgress>>
  /\ SenderEffect(TRUE)
  /\ RxHistory

\* One step of the clock while the interval runs; an interval that is due
\* calls back before the clock moves on.
TimePasses ==
  /\ timer.armed
  /\ timer.elapsed < TimerTicks
  /\ timer' = [timer EXCEPT !.elapsed = @ + 1,
                            !.waited = IF @ > TimerTicks THEN @ ELSE @ + 1]
  /\ ev' = Event("clock", "step")
  /\ UNCHANGED <<appVars, logs, refVars, newlineCountRef, ioVars, procVars, cnt, hist,
                 senderVars>>
  /\ RxHistory

\* The callback of the interval: onSend(input, mode) with the sendData, the
\* input and the mode of the render that set the interval, which is the
\* latest render.  The interval goes on; a render caused by the call sets
\* a new one.
TimerFire ==
  /\ timer.armed
  /\ timer.elapsed = TimerTicks
  /\ sendData(sender.input, sender.mode)
  /\ cnt' = cnt
  /\ timer' = [armed |-> TRUE, elapsed |-> 0, waited |-> 0]
  /\ RxHistory

\* The callback of the frequency interval.  due: a second or more has gone
\* by on the wall clock since the last publication (timeDiff >= 1000).
frequencyTimer_noReset(due) ==
  /\ IF due
     THEN /\ lineFrequency' = newlineCountRef
          /\ newlineCountRef' = newlineCountRef
          /\ ev' = Event("frequencyTimer", "published")
     ELSE /\ UNCHANGED <<lineFrequency, newlineCountRef>>
          /\ ev' = Event("frequencyTimer", "early")
  /\ UNCHANGED <<port, isConnected, isPaused, isAutoLineBreak, logs, refVars, ioVars,
                 procVars, cnt, hist, senderVars>>
  /\ SenderEffect(lineFrequency' # lineFrequency)
  /\ RxHistory

frequencyTimer(due) ==
  /\ IF due
     THEN /\ lineFrequency' = newlineCountRef
          /\ newlineCountRef' = 0
          /\ ev' = Event("frequencyTimer", "published")
     ELSE /\ UNCHANGED <<lineFrequency, newlineCountRef>>
          /\ ev' = Event("frequencyTimer", "early")
  /\ UNCHANGED <<port, isConnected, isPaused, isAutoLineBreak, logs, refVars, ioVars,
                 procVars, cnt, hist, senderVars>>
  /\ SenderEffect(lineFrequency' # lineFrequency)
  /\ RxHistory

\* --------------------------------------------------------- handleFileSend
\* The bytes of a file of total bytes: byte i holds the value i.
fileBytes(total) == [i \in 1..total |-> i]

\* handleFileSend up to its await of file.arrayBuffer().  getWriter is
\* called outside the try: on a locked stream the call rejects.
handleFileSend(total, throttleBytes, delay) ==
  IF sendGate = "noPort"
  THEN /\ ev' = Event("handleFileSend", "noPort")
       /\ UNCHANGED <<logs, wlock, fs>>
  ELSE IF sendGate = "paused"
  THEN /\ logs' = Note(logs, "error", "filePaused")
       /\ ev' = Event("handleFileSend", "paused")
       /\ UNCHANGED <<wlock, fs>>
  ELSE IF wlock[port]
  THEN /\ ev' = Event("handleFileSend", "locked")
       /\ UNCHANGED <<logs, wlock, fs>>
  ELSE /\ wlock' = [wlock EXCEPT ![port] = TRUE]
       /\ fs' = [pc |-> "buffer", port |-> port, isPaused |-> isPaused,
                 total |-> total, sent |-> 0, throttleBytes |-> throttleBytes,
                 delay |-> delay, started |-> 0,
                 data |-> fileBytes(total), writes |-> <<>>]
       /\ ev' = Event("handleFileSend", "buffer")
       /\ UNCHANGED logs

\* The segments of handleFileSend after which the call has returned: the
\* promise it gave handleFileChange is fulfilled.
fileSendReturned ==
  ev'.res \in {"noPort", "paused", "aborted", "completed", "silent", "writeFailed"}

\* handleFileChange after `await onFileSend(...)`: setIsSendingFile(false)
\* runs when the call has returned, and never when it rejected.
SendingFileAfter ==
  sender' = [sender EXCEPT !.isSendingFile = IF fileSendReturned THEN FALSE ELSE @]

\* A file was chosen: handleFileChange of the Sender.  Its button is
\* disabled while isSendingFile is set.  The Sender's isConnected is the
\* App's isConnected && !isPaused; without it the handler returns at once.
\* Else it sets the indicator and the progress and calls handleFileSend.
handleFileChange(total, throttleBytes, delay) ==
  /\ ~sender.isSendingFile
  /\ cnt.inputs < MaxInputs
  /\ cnt' = Bump("inputs")
  /\ IF ~(isConnected /\ ~isPaused)
     THEN /\ ev' = Event("handleFileChange", "ignored")
          /\ UNCHANGED <<logs, wlock, fs, hist, senderVars>>
     ELSE /\ fileProgress' = 0
          /\ handleFileSend(total, throttleBytes, delay)
          /\ sender' = [sender EXCEPT !.isSendingFile = ~fileSendReturned]
          /\ hist' = NoHistory
  /\ UNCHANGED <<appVars, refVars, newlineCountRef, readable, writable, rlock,
                 cn, dc, loop, sd>>
  /\ SenderEffect(ev'.res = "paused")
  /\ RxHistory

\* One test of `while (sent < total)` and what follows it, up to the next
\* await or the return.  isPaused is the value the call captured.  from is
\* the session at the test, log the store at the test.  The chunk handed
\* to writer.write is data.slice(sent, sent + throttleBytes).  started and
\* writes record the writes of the session up to one beyond the most a file
\* needs, MaxFileLen; a session that goes on writing leaves them there.
fileLoop(from, log) ==
  IF from.sent < from.total
  THEN IF from.isPaused
       THEN /\ logs' = Note(log, "error", "fileAborted")
            /\ wlock' = [wlock EXCEPT ![from.port] = FALSE]
            /\ fs' = IdleFile
            /\ ev' = Event("handleFileSend", "aborted")
       ELSE /\ logs' = log
            /\ wlock' = wlock
            /\ fs' = [from EXCEPT
                        !.pc = "write",
                        !.started = IF @ > MaxFileLen THEN @ ELSE @ + 1,
                        !.writes = IF from.started > MaxFileLen THEN @
                                   ELSE Append(@, SubSeq(from.data, from.sent + 1,
                                     from.sent + sliceLen(from.sent, from.throttleBytes,
                                                          from.total)))]
            /\ ev' = Event("handleFileSend", "write")
  ELSE /\ logs' = IF ~from.isPaused THEN Note(log, "info", "fileDone") ELSE log
       /\ wlock' = [wlock EXCEPT ![from.port] = FALSE]
       /\ fs' = IdleFile
       /\ ev' = Event("handleFileSend", IF ~from.isPaused THEN "completed" ELSE "silent")

\* The outcomes of fileLoop that append an entry, and so render the App.
fileLoopLogged == ev'.res \in {"aborted", "completed"}

\* file.arrayBuffer() resolved: the start entry, then the first loop test.
fileBuffered ==
  /\ fs.pc = "buffer"
  /\ fileLoop(fs, Note(logs, "info", "fileStart"))
  /\ SendingFileAfter
  /\ UNCHANGED <<appVars, refVars, newlineCountRef, readable, writable, rlock,
                 cn, dc, loop, sd, cnt, hist, fileProgress>>
  /\ SenderEffect(TRUE)
  /\ RxHistory

\* file.arrayBuffer() rejected: the call rejects, the writer stays locked
\* and handleFileChange never reaches setIsSendingFile(false).
fileBufferFailed ==
  /\ fs.pc = "buffer"
  /\ cnt.faults < MaxFaults
  /\ cnt' = Bump("faults")
  /\ fs' = IdleFile
  /\ ev' = Event("handleFileSend", "threw")
  /\ UNCHANGED <<appVars, logs, refVars, newlineCountRef, ioVars, cn, dc, loop, sd, hist,
                 senderVars>>
  /\ SenderEffect(FALSE)
  /\ RxHistory

\* writer.write(chunk) resolved: progress, then the delay or the next test.
fileChunkWritten ==
  /\ fs.pc = "write"
  /\ LET sent == fs.sent + sliceLen(fs.sent, fs.throttleBytes, fs.total)
         after == [fs EXCEPT !.sent = sent]
     IN  /\ fileProgress' = progressOf(sent, fs.total)
         /\ IF fs.delay /\ sent < fs.total
            THEN /\ fs' = [after EXCEPT !.pc = "delay"]
                 /\ ev' = Event("handleFileSend", "delay")
                 /\ UNCHANGED <<logs, wlock>>
            ELSE fileLoop(after, logs)
  /\ SendingFileAfter
  /\ UNCHANGED <<appVars, refVars, newlineCountRef, readable, writable, rlock,
                 cn, dc, loop, sd, cnt, hist>>
  /\ SenderEffect(fileLoopLogged)
  /\ RxHistory

\* writer.write(chunk) rejected: the catch logs, the finally releases.
fileChunkFailed ==
  /\ fs.pc = "write"
  /\ cnt.faults < MaxFaults
  /\ cnt' = Bump("faults")
  /\ logs' = Note(logs, "error", "fileFailed")
  /\ wlock' = [wlock EXCEPT ![fs.port] = FALSE]
  /\ fs' = IdleFile
  /\ ev' = Event("handleFileSend", "writeFailed")
  /\ SendingFileAfter
  /\ UNCHANGED <<appVars, refVars, newlineCountRef, readable, writable, rlock,
                 cn, dc, loop, sd, hist, fileProgress>>
  /\ SenderEffect(TRUE)
  /\ RxHistory

\* The inter-chunk timeout elapsed.
fileDelayElapsed ==
  /\ fs.pc = "delay"
  /\ fileLoop(fs, logs)
  /\ SendingFileAfter
  /\ UNCHANGED <<appVars, refVars, newlineCountRef, readable, writable, rlock,
                 cn, dc, loop, sd, cnt, hist, fileProgress>>
  /\ SenderEffect(fileLoopLogged)
  /\ RxHistory

\* ------------------------------------------------------------ specification
Connect == ConnectClick \/ \E p \in Ports : ConnectOpened(p) \/ ConnectFailed(p)
Disconnect == DisconnectClick \/ DisconnectCancelled \/ DisconnectClosed
Toggles == togglePause
Framing == setIsAutoLineBreak
Clear == clearLogs
Read == \E p \in Ports :
          \/ \E value \in Chunks : ReadValue(p, value)
          \/ ReadDone(p)
          \/ \E fatal \in BOOLEAN : ReadError(p, fatal)
Send == \/ \E i \in Inputs : handleSendClick(i.input, i.mode)
        \/ \E p \in Ports : sendDataWritten(p) \/ sendDataFailed(p)
FileSend == \/ \E total \in 0..MaxFileLen, throttleBytes \in 1..MaxThrottle,
                  delay \in BOOLEAN : handleFileChange(total, throttleBytes, delay)
            \/ fileBuffered \/ fileBufferFailed
            \/ fileChunkWritten \/ fileChunkFailed \/ fileDelayElapsed

\* The file send with every "bytes per batch" the number input of the
\* Sender accepts: zero and a negative number as well.
FileSendAny == \/ \E total \in 0..MaxFileLen, throttleBytes \in (0 - 1)..MaxThrottle,
                     delay \in BOOLEAN : handleFileChange(total, throttleBytes, delay)
               \/ fileBuffered \/ fileBufferFailed
               \/ fileChunkWritten \/ fileChunkFailed \/ fileDelayElapsed

\* What the user can type into the Sender, the empty text included.
SenderInput == \/ \E i \in Inputs : setInput(i.input, i.mode)
               \/ setInput(<<>>, "text")
               \/ setIsTimerEnabled
TimedSend == TimePasses \/ TimerFire
FrequencyMeter == \E due \in BOOLEAN : frequencyTimer(due)

Next == \/ Connect \/ Disconnect \/ Toggles \/ Framing \/ Clear \/ Read \/ Send \/ FileSend
        \/ SenderInput \/ TimedSend \/ FrequencyMeter \/ FileSendAny

Spec == Init /\ [][Next]_vars

\* The transmit side: connection, pause and the two send paths; of the
\* read loop only the end of its stream.
Drain == \E p \in Ports : ReadDone(p)
NextSend == Connect \/ Disconnect \/ Drain \/ togglePause \/ Send \/ FileSend
SpecSend == Init /\ [][NextSend]_vars

\* The receive side: connection, pause, framing and the read loop.
NextRead == Connect \/ Disconnect \/ Toggles \/ Framing \/ Clear \/ Read
SpecRead == Init /\ [][NextRead]_vars

\* The timed send: connection, pause, the Sender's input and timer, the
\* clock, inbound chunks and the continuations of the sends.
Receive == \E p \in Ports, value \in Chunks : ReadValue(p, value)
SendEnds == \E p \in Ports : sendDataWritten(p) \/ sendDataFailed(p)
NextTimer == \/ Connect \/ Disconnect \/ togglePause \/ Receive
             \/ SenderInput \/ TimedSend \/ SendEnds
SpecTimer == Init /\ [][NextTimer]_vars

\* The frequency meter: connection, pause, the read loop and the ticks.
NextFrequency == Connect \/ Disconnect \/ togglePause \/ Read \/ FrequencyMeter
SpecFrequency == Init /\ [][NextFrequency]_vars

\* The file send alone with the connection and pause.  Every write that was
\* started settles, file.arrayBuffer() settles and the timeout between two
\* chunks runs out.
NextFile == Connect \/ togglePause \/ FileSendAny
SpecFile ==
  /\ Init /\ [][NextFile]_vars
  /\ WF_procVars(fileBuffered \/ fileBufferFailed)
  /\ WF_procVars(fileChunkWritten \/ fileChunkFailed)
  /\ WF_procVars(fileDelayElapsed)

\* Connections that stay open: the read loop, pause, framing and clear,
\* together with the immediate send, whose Transmit and Error entries come
\* between the Receive entries.
NextConserve == Connect \/ Toggles \/ Framing \/ Clear \/ Read \/ Send
SpecConserve == Init /\ [][NextConserve]_vars

\* The read loop and the connection alone.  The continuations of settled
\* promises always get to run: disconnect after cancel() and after close().
NextLoop == Connect \/ Disconnect \/ Read
SpecLoop ==
  /\ Init /\ [][NextLoop]_vars
  /\ WF_procVars(DisconnectCancelled) /\ WF_procVars(DisconnectClosed)

\* ------------------------------------------------------------------ claims
\* Equality of entries and of stores, field by field.
SameEntry(a, b) ==
  a.type = b.type /\ a.data = b.data /\ a.text = b.text /\ a.msg = b.msg
SameLogs(a, b) == Len(a) = Len(b) /\ \A i \in 1..Len(a) : SameEntry(a[i], b[i])
LastIs(log, type, text) ==
  log # <<>> /\ log[Len(log)].type = type /\ log[Len(log)].msg = text

\* The step starts a chunk write of the file session.
StartsChunkWrite == fs'.pc = "write" /\ fs'.started = fs.started + 1
\* The step ends the file session.
EndsSession == fs.pc # "idle" /\ fs'.pc = "idle"
\* A send operation runs on port p.
Sending(p) == sd[p].pc = "writing" \/ (fs.pc # "idle" /\ fs.port = p)
\* The step is a call of sendData or of handleFileSend.
SendCall == cnt'.inputs = cnt.inputs + 1 /\ ev'.op \in {"sendData", "handleFileSend"}
\* The step starts no write and takes no write handle.
NoWrite == wlock' = wlock /\ sd' = sd /\ fs' = fs
ErrorTexts == {"sendPaused", "filePaused", "sendFailed", "fileAborted", "fileFailed",
               "connectFailed"}
\* The step appends exactly one error entry.
OneErrorEntry == \E m \in ErrorTexts : SameLogs(logs', Note(logs, "error", m))

\* C1: once pause was engaged in the middle of a file send (after chunk i
\* of n, i < n), the session starts no chunk write any more, also after a
\* later un-pause (the write in flight at the pause may finish).
C1_PauseStopsFileSend ==
  [][(hist.paused /\ fs.pc # "idle") => ~StartsChunkWrite]_vars

\* C2: a file send that was paused before its last chunk write ends by
\* appending the abort entry, once, and no completion entry (ends caused
\* by a failed write aside).
C2_PausedSendAbortsOnce ==
  [][(hist.paused /\ EndsSession /\ ev'.res # "writeFailed")
       => /\ ev'.res = "aborted"
          /\ LastIs(logs', "error", "fileAborted")]_vars

\* C3: when no send operation runs on a port, its write handle is free:
\* every exit path of a send has released it.
C3_WriteHandleReleased ==
  \A p \in Ports : ~Sending(p) => ~wlock[p]

\* C4: no send tries to take the write handle of a port while another send
\* still runs on it.
C4_SendsNeverOverlap ==
  ~(ev.op \in {"sendData", "handleFileSend"} /\ ev.res = "locked" /\ Sending(port))

C6_ReadErrorLogged ==
  (ev.op = "read" /\ ev.res = "error") => (logs # <<>> /\ logs[Len(logs)].type = "error")

\* C7: after a read error the connection is Disconnected.
C7_ReadErrorDisconnects ==
  (ev.op = "read" /\ ev.res = "error") => ConnectionState = "Disconnected"

\* C8: after a disconnect clicked during a file send, the session starts
\* no further chunk write (the write in flight may finish).
C8_DisconnectStopsFileSend ==
  [][(hist.disconnected /\ fs.pc # "idle") => ~StartsChunkWrite]_vars

\* The step is the read loop of port p appending a received chunk.
RxAppend(p) ==
  /\ cnt'.chunks = cnt.chunks + 1
  /\ ev'.op = "read" /\ ev'.res = "rx" /\ ev'.at = p

\* The step adds entry e as a new last entry, dropping the oldest entry
\* when the store was full.
NewLastEntry(e) ==
  LET n == Len(logs')
      kept == IF Len(logs) < LogCap THEN logs ELSE Tail(logs)
  IN  /\ n = Len(kept) + 1
      /\ SameEntry(logs'[n], e)
      /\ SameLogs(SubSeq(logs', 1, n - 1), kept)

\* The step extends the last entry by the bytes value and the text t and
\* leaves every other entry alone.
LastEntryExtended(value, t) ==
  LET n == Len(logs)
  IN  /\ Len(logs') = n
      /\ logs'[n].type = "rx"
      /\ logs'[n].data = logs[n].data \o value
      /\ Len(logs'[n].data) = Len(logs[n].data) + Len(value)
      /\ logs'[n].text = logs[n].text \o t
      /\ SameLogs(SubSeq(logs', 1, n - 1), SubSeq(logs, 1, n - 1))

\* C9: with framing ON when a chunk arrives, the chunk becomes a new entry
\* of its own, whatever the last entry is.
C9_FramingOnSplits ==
  [][\A p \in Ports :
       (RxAppend(p) /\ isAutoLineBreak)
         => \E value \in Chunks :
              NewLastEntry(Entry("rx", value, decode(decoderRef, value).text))]_vars

C11_LogStoreBounded == Len(logs) <= LogCap

\* The store is full and has lost its oldest entry: framing was switched ON
\* and a port connected (two gestures), two chunks became two entries, and
\* the note of the pause (the third gesture) pushed the connection note out.
C11_Witness ==
  /\ Len(logs) = LogCap
  /\ cnt.inputs = 3 /\ cnt.chunks = 2
  /\ ev.op = "togglePause"
  /\ logs[1].type = "rx" /\ logs[2].type = "rx"
  /\ LastIs(logs, "info", "paused")

\* C12: every entry of the store carries a byteCount equal to the number
\* of its raw bytes.
C12_ByteCountIsLength ==
  \A i \in 1..Len(logs) :
    /\ "byteCount" \in DOMAIN logs[i]
    /\ logs[i].byteCount = Len(logs[i].data)

\* The separators of a hex input, read as white space.
stripSeparators(s) == SelectSeq(s, LAMBDA c : c # " ")
\* The step leaves the connection as it is.
SameConnection == port' = port /\ isConnected' = isConnected /\ isPaused' = isPaused
\* The step is a failed send: one error entry, no write, no other entry.
SendFails == OneErrorEntry /\ NoWrite /\ SameConnection

\* The step is a call sendData(input, "hex") that passes the connection
\* checks, and h is the input without the characters sep strips.
HexSendCall(h, sep(_)) ==
  /\ SendCall /\ ev'.op = "sendData" /\ sendGate = "go"
  /\ ev'.arg[1] = "hex"
  /\ h = SelectSeq(Tail(ev'.arg), LAMBDA c : ~sep(c))

\* C13 as stated: in Connected, a hex-mode send whose input without its
\* separators (white space) has odd length or holds a character that is
\* not a hex digit fails: one error entry, no write, no Transmit entry,
\* same connection.
C13_InvalidHexFails ==
  [][\A i \in Inputs :
       LET h == stripSeparators(i.input)
       IN  (/\ HexSendCall(h, LAMBDA c : c = " ")
            /\ Len(h) % 2 = 1 \/ \E k \in 1..Len(h) : h[k] \notin HexDigits)
             => SendFails]_vars

\* C13 amended: in Connected, a hex-mode send whose input holds an odd
\* number of hex digits fails: one error entry, no write, no Transmit
\* entry, same connection.  Characters that are no hex digits are dropped.
C13_OddHexFails ==
  [][\A i \in Inputs :
       LET h == SelectSeq(i.input, LAMBDA c : c \in HexDigits)
       IN  (HexSendCall(h, LAMBDA c : c \notin HexDigits) /\ Len(h) % 2 = 1)
             => SendFails]_vars

\* A hex send with an odd number of digits was refused on an open,
\* unpaused connection and left its error entry.
C13_Witness ==
  /\ ev.op = "sendData" /\ ev.res = "badHex"
  /\ LastIs(logs, "error", "sendFailed")
  /\ ConnectionState = "Connected"
  /\ \A p \in Ports : sd[p].pc = "idle" /\ ~wlock[p]

\* The step is the read loop taking a chunk from reader.read().
ChunkPulled == cnt'.chunks = cnt.chunks + 1

\* C14: a chunk the read loop pulls while the connection is ConnectedPaused
\* is discarded: the store, the decoder and the newline accumulator stay as
\* they are, so nothing of the chunk is left to show up after a resume.
C14_PausedChunkDiscarded ==
  [][(ChunkPulled /\ ConnectionState = "ConnectedPaused")
       => /\ SameLogs(logs', logs)
          /\ decoderRef' = decoderRef
          /\ newlineCountRef' = newlineCountRef
          /\ ev'.res = "discarded"]_vars

\* A chunk was pulled and discarded on a paused connection.
C14_Witness ==
  /\ ev.op = "read" /\ ev.res = "discarded"
  /\ ConnectionState = "ConnectedPaused"
  /\ cnt.chunks >= 1

\* C15: a disconnect that cancels the pending read of a loop leads to the
\* connection being Disconnected and that loop stopped; no chunk has to
\* arrive for it (none can be delivered once the read is cancelled).
C15_DisconnectUnblocksRead ==
  \A p \in Ports :
    (dc.pc = "cancel" /\ dc.reader = p)
      ~> (ConnectionState = "Disconnected" /\ loop[p].pc = "stopped")

\* A disconnect has ended with the connection Disconnected and the loop
\* stopped although no chunk ever arrived and no read failed.
C15_Witness ==
  /\ ev.op = "disconnect" /\ ev.res = "closed"
  /\ ConnectionState = "Disconnected"
  /\ cnt.chunks = 0 /\ cnt.faults = 0
  /\ \E p \in Ports : loop[p].pc = "stopped"

\* C16: at most one read loop holds a reader at any time.
C16_SingleReadLoop ==
  Cardinality({p \in Ports : loop[p].pc = "reading"}) <= 1

\* The concatenation of the chunks of w, in order.
RECURSIVE Flatten(_)
Flatten(w) == IF w = <<>> THEN <<>> ELSE Head(w) \o Flatten(Tail(w))

\* sent/total as a percentage, rounded to the nearest integer (half up).
RoundedPercent(sent, total) ==
  CHOOSE r \in 0..100 : 2 * total * r <= 200 * sent + total
                      /\ 200 * sent + total < 2 * total * (r + 1)

\* The step sees a chunk write of the file session resolve.
ChunkWriteResolved ==
  fs.pc = "write" /\ ev'.op = "handleFileSend" /\ ev'.res # "writeFailed"

\* C17: a file send of T > 0 bytes with c > 0 bytes per batch that meets no
\* pause and no error ends after exactly ceil(T/c) writes, each of c bytes
\* except a possibly shorter last one, whose concatenation is the file, and
\* with a last progress report of 100; after each write the progress
\* reported is round(sent/T*100).
C17_FileChunking ==
  [][LET T == fs.total
         c == fs.throttleBytes
         w == fs.writes
         n == Len(fs.writes)
     IN  /\ (ChunkWriteResolved /\ ~hist.pauseClicked)
              => fileProgress' = RoundedPercent(Len(Flatten(w)), T)
         /\ (EndsSession /\ ev'.res = "completed" /\ T > 0 /\ ~hist.pauseClicked)
              => /\ n = (T + c - 1) \div c
                 /\ \A k \in 1..(n - 1) : Len(w[k]) = c
                 /\ Len(w[n]) \in 1..c
                 /\ Flatten(w) = fs.data
                 /\ Len(fs.data) = T
                 /\ fileProgress' = 100]_vars

\* A file send that met no pause has completed with the progress at 100.
C17_Witness ==
  /\ ev.op = "handleFileSend" /\ ev.res = "completed"
  /\ LastIs(logs, "info", "fileDone")
  /\ fileProgress = 100
  /\ ~hist.pauseClicked

\* C18: while timed mode is on, the connection is Connected and the input
\* is not empty, no more than one interval goes by without a timed send,
\* whatever else happens meanwhile.
C18_TimedSendEveryInterval == timer.waited <= TimerTicks

\* The step is a call of sendData made by the timer.
TimerDriven ==
  ev'.op = "sendData" /\ ev'.res \notin {"written", "writeFailed"} /\ cnt' = cnt

\* Timed mode is on, the connection is Connected and the input not empty.
TimedSendWanted ==
  sender.isTimerEnabled /\ ConnectionState = "Connected" /\ trim(sender.input) # <<>>

\* C19: the timer makes a send only while timed mode is on, the connection
\* is Connected (open and not paused) and the input is not empty, and as
\* soon as one of these fails no interval is left running.
C19_TimerCancelled ==
  [][/\ TimerDriven => TimedSendWanted
     /\ ~TimedSendWanted' => ~timer'.armed]_vars

\* The timer has sent, then pause was engaged with timed mode still on, and
\* no interval is running.
C19_Witness ==
  /\ sender.isTimerEnabled /\ trim(sender.input) # <<>>
  /\ ConnectionState = "ConnectedPaused"
  /\ ~timer.armed
  /\ \E i \in 1..Len(logs) : logs[i].type = "tx"

\* The step is a tick of the frequency meter: a callback that publishes.
FrequencyTick == ev'.op = "frequencyTimer" /\ ev'.res = "published"

\* C20: the accumulator grows by the newlines of each Receive text put into
\* the store and by nothing else, a tick publishes it and resets it to 0,
\* and only a tick changes the published value; so a tick publishes the k
\* newlines recorded since the tick before it, and 0 when there were none.
\* The published value is 0 before the first tick and never negative.
C20_FrequencyWindow ==
  /\ lineFrequency = 0
  /\ [](lineFrequency >= 0)
  /\ [][/\ FrequencyTick => (lineFrequency' = newlineCountRef /\ newlineCountRef' = 0)
        /\ ~FrequencyTick => lineFrequency' = lineFrequency
        /\ \A p \in Ports : RxAppend(p) =>
             \E value \in Chunks :
               LET t == decode(decoderRef, value).text
               IN  /\ IF ~loop[p].framing /\ logs # <<>> /\ logs[Len(logs)].type = "rx"
                      THEN LastEntryExtended(value, t)
                      ELSE NewLastEntry(Entry("rx", value, t))
                   /\ newlineCountRef' = newlineCountRef + countNewlines(t)
        /\ (~FrequencyTick /\ \A p \in Ports : ~RxAppend(p))
             => newlineCountRef' = newlineCountRef]_vars

\* Two newlines were received in one window and the tick published 2.
C20_Witness ==
  /\ ev.op = "frequencyTimer" /\ ev.res = "published"
  /\ lineFrequency = 2
  /\ newlineCountRef = 0

\* C21: when a disconnect has completed, the newline accumulator is 0, so a
\* later tick publishes no newline received before the disconnect.
C21_DisconnectResetsSample ==
  (ev.op = "disconnect" /\ ev.res = "closed") => newlineCountRef = 0

\* The outcomes of a send call that are failures: a refusal by pause, an
\* input that does not convert, a write handle that is held, a file that
\* cannot be read, a write that fails.
SendFailures ==
  {"paused", "badHex", "locked", "threw", "writeFailed", "aborted"}

\* C22: a send call that fails leaves an error entry as the last entry of
\* the store and returns normally, so that whenever no file send is in
\* flight the Sender's file-sending indicator is cleared.
C22_SendFailuresContained ==
  /\ (ev.op \in {"sendData", "handleFileSend"} /\ ev.res \in SendFailures)
        => (logs # <<>> /\ logs[Len(logs)].type = "error")
  /\ (fs.pc = "idle" => ~sender.isSendingFile)

\* C23: for each connection, the text fragments its read loop got from the
\* decoder, concatenated, are the decoding of the bytes it fed, concatenated
\* (a truncated last sequence stays buffered and is in neither).
C23_ChunkingTransparent ==
  \A p \in Ports : rx.text[p] = decode(0, rx.fed[p]).text

\* C24: when a read of loop p has reported the end of the stream, or has
\* thrown, with no disconnect requested, the loop is stopped and holds no
\* reader: it took no new read handle of the port.
C24_LoopStopsAfterEndOrError ==
  (ev.op = "read" /\ ev.res \in {"done", "error"} /\ keepReadingRef)
    => (loop[ev.at].pc = "stopped" /\ ~rlock[ev.at])

\* C25: every chunk the read loop of a connection decodes goes to the
\* decoder that this loop made when it started, and to no decoder made for
\* another connection; at the first chunk of the connection that decoder
\* holds no buffered partial sequence.
C25_DecoderPerConnection ==
  [][\A p \in Ports :
       RxAppend(p) => /\ rx.owner = p
                      /\ (rx.fed[p] = <<>> => decoderRef = 0)]_vars

\* C26: a file send that was started returns, whatever the size of the file
\* and the "bytes per batch" and delay entered, zero and negative numbers
\* included, provided each write completes.
C26_FileSendTerminates == (fs.pc # "idle") ~> (fs.pc = "idle")

\* The bytes of the Receive entries of a store, in the order of the store.
RECURSIVE RxBytes(_)
RxBytes(log) ==
  IF log = <<>> THEN <<>>
  ELSE (IF Head(log).type = "rx" THEN Head(log).data ELSE <<>>) \o RxBytes(Tail(log))

\* C27: as long as no chunk was dropped under pause and no Receive entry
\* left the store, the bytes of the Receive entries of the store, in order,
\* are the bytes of all delivered chunks, in order: none lost, duplicated
\* or moved, under either framing mode and whatever other entries were
\* appended in between.
C27_ReceivedBytesConserved ==
  ~rx.lossy => RxBytes(logs) = rx.delivered

\* Two chunks were received with a Transmit entry appended between them,
\* and the store holds the bytes of both.
C27_Witness ==
  /\ ~rx.lossy
  /\ Len(rx.delivered) = 2
  /\ \E i, j, k \in 1..Len(logs) :
       /\ i < j /\ j < k
       /\ logs[i].type = "rx" /\ logs[j].type = "tx" /\ logs[k].type = "rx"

====
